---- MODULE Spec2Model ----
(***************************************************************************)
(* Gmail triage poller (gmail_poll.py, with the older extractor of         *)
(* authenticate.py): body extraction over a multipart payload tree, the    *)
(* keyword/sentiment classifier, the category -> action mapping, the       *)
(* poll_once sweep with its sqlite "seen" store, run_daemon and the CLI.   *)
(*                                                                         *)
(* Text is a sequence of tokens.  A base64url body blob is a record        *)
(* [ok, bytes]: ok says whether base64.urlsafe_b64decode accepts the       *)
(* string (correct padding), bytes is what it decodes to.  The empty       *)
(* string "" is the blob [ok |-> TRUE, bytes |-> <<>>].                    *)
(***************************************************************************)
EXTENDS Integers, Sequences, FiniteSets, TLC

VARIABLES
    \* ---- the command line and the environment of one run
    pc,         \* position of the run: "start", "daemon" (the while test), "poll"
                \* (poll_once entered), "sweep" (its for loop), "sleep", "exit",
                \* "crashed" (uncaught exception); "extract" under SpecExtract
    entry,      \* how the run was started: "auth", "once", "daemon", "none" (cli) or "api_daemon"
    dry_run,    \* args.dry_run
    rules,      \* the rules dict handed to poll_once
    review_id,  \* LABEL_ID_REVIEW from the environment
    conn,       \* the conn argument poll_once receives: "db" or "None"
    now,        \* time.time(), seconds since the run started
    \* ---- the mailbox (owned by the mail service) and the sqlite store
    mailbox,    \* id -> message as get_message returns it
    trashed,    \* ids moved to trash
    seenDB,     \* rows of the table seen
    \* ---- one poll_once call
    listing,    \* what unread_message_ids returned
    idx,        \* position of the for loop in listing
    seen,       \* the local set loaded at line 140
    digest,     \* the list poll_once returns
    log,        \* one record per loop iteration of the current sweep
    \* ---- history
    mutated,    \* id -> number of mutation calls that completed successfully
    sweeps,     \* number of poll_once calls that returned
    \* ---- the extractor applied to one message object
    xmsg,       \* the message object handed to plain_text_from_msg
    xorig,      \* its payload before the first call
    xres        \* results of the calls made so far, in order

vars == <<pc, entry, dry_run, rules, review_id, conn, now, mailbox, trashed, seenDB,
          listing, idx, seen, digest, log, mutated, sweeps, xmsg, xorig, xres>>

pollVars == <<pc, entry, dry_run, rules, review_id, conn, now, mailbox, trashed, seenDB,
              listing, idx, seen, digest, log, mutated, sweeps>>

extractVars == <<xmsg, xorig, xres>>

-----------------------------------------------------------------------------
(* Bounds *)

NumMsgs == 3        \* messages in the mailbox

MaxList == 2        \* length of one unread listing

PollInterval == 60  \* POLL_INTERVAL of the environment, seconds

MaxParts == 2       \* children of one payload node

MaxCalls == 2       \* calls of the extractor on one message object

(* Program constants *)

SleepSecs == 30     \* time.sleep(30) in run_daemon

PolarityThreshold == 4  \* polarity > 0.4, in tenths

-----------------------------------------------------------------------------
(* Sequences helpers *)

SeqsUpTo(S, n) == UNION {[1..k -> S] : k \in 0..n}

Range(s) == {s[i] : i \in 1..Len(s)}

\* Python's `w in sender` on strings: w occurs as a contiguous substring.
IsSubstring(w, s) ==
    \E i \in 0..(Len(s) - Len(w)) : \A j \in 1..Len(w) : s[i + j] = w[j]

-----------------------------------------------------------------------------
(* Text, blobs and decoding *)

Tag == "<b>"
Entity == "&amp;"
BadByte == "\\xff"

EmptyBlob == [ok |-> TRUE, bytes |-> <<>>]

NoText == <<>>

Returned(t) == [raised |-> FALSE, text |-> t]

Raised == [raised |-> TRUE, text |-> NoText]

\* base64.urlsafe_b64decode raises binascii.Error on a malformed string;
\* .decode("utf-8", errors="ignore") drops the bytes that are not UTF-8.
b64_to_str(blob) ==
    IF ~blob.ok THEN Raised
    ELSE Returned(SelectSeq(blob.bytes, LAMBDA b : b # BadByte))

Unescape(tok) == IF tok = Entity THEN "&" ELSE tok

\* html.unescape(re.sub("<[^>]+>", "", htm))
strip_html(t) ==
    LET kept == SelectSeq(t, LAMBDA tok : tok # Tag)
    IN  [i \in 1..Len(kept) |-> Unescape(kept[i])]

-----------------------------------------------------------------------------
(* Payload nodes *)

TextPlain == "text/plain"
TextHtml == "text/html"
OtherMime == "application/pdf"
NoMime == "<absent>"     \* the node has no mimeType key

Node(mime, data, parts) == [mimeType |-> mime, data |-> data, parts |-> parts]

\* body.get("data") is truthy: the key is there and the string is not "".
HasData(node) == node.data # EmptyBlob

-----------------------------------------------------------------------------
(* plain_text_from_msg.  `stack` is the very list object payload["parts"], so
   what pop(0) and extend do to it is done to the message; the result carries
   the list as the call leaves it. *)

Outcome(r, stack) == [raised |-> r.raised, text |-> r.text, parts |-> stack]

\* gmail_poll.py, the while loop: lines 96-105
RECURSIVE ScanPoll(_)
ScanPoll(stack) ==
    IF stack = <<>> THEN Outcome(Returned(NoText), <<>>)
    ELSE LET part == Head(stack)
             rest == Tail(stack)
             dec  == b64_to_str(part.data)
         IN  IF HasData(part)
             THEN IF dec.raised THEN Outcome(Raised, rest)
                  ELSE IF part.mimeType = TextPlain
                       THEN Outcome(Returned(dec.text), rest)
                       ELSE Outcome(Returned(strip_html(dec.text)), rest)
             ELSE ScanPoll(rest \o part.parts)

\* gmail_poll.py lines 89-105
plain_text_from_msg(msg) ==
    LET payload == msg.payload
        dec     == b64_to_str(payload.data)
    IN  IF HasData(payload)
        THEN IF dec.raised \/ payload.mimeType = NoMime   \* binascii.Error, KeyError
             THEN Outcome(Raised, payload.parts)
             ELSE IF payload.mimeType = TextPlain
                  THEN Outcome(Returned(dec.text), payload.parts)
                  ELSE Outcome(Returned(strip_html(dec.text)), payload.parts)
        ELSE ScanPoll(payload.parts)

\* authenticate.py, the while loop: lines 60-71
RECURSIVE ScanAuth(_)
ScanAuth(stack) ==
    IF stack = <<>> THEN Outcome(Returned(NoText), <<>>)
    ELSE LET part == Head(stack)
             rest == Tail(stack)
             dec  == b64_to_str(part.data)
         IN  IF HasData(part) /\ dec.raised THEN Outcome(Raised, rest)
             ELSE IF HasData(part) /\ part.mimeType = TextPlain
                  THEN Outcome(Returned(dec.text), rest)
             ELSE IF HasData(part) /\ part.mimeType = TextHtml
                  THEN Outcome(Returned(strip_html(dec.text)), rest)
             ELSE ScanAuth(rest \o part.parts)

\* authenticate.py lines 44-74
plain_text_from_msg_auth(msg) ==
    LET payload == msg.payload
        dec     == b64_to_str(payload.data)
    IN  IF HasData(payload) /\ payload.mimeType = NoMime       \* KeyError
        THEN Outcome(Raised, payload.parts)
        ELSE IF HasData(payload) /\ payload.mimeType \in {TextPlain, TextHtml}
             THEN IF dec.raised THEN Outcome(Raised, payload.parts)
                  ELSE IF payload.mimeType = TextPlain
                       THEN Outcome(Returned(dec.text), payload.parts)
                       ELSE Outcome(Returned(strip_html(dec.text)), payload.parts)
             ELSE ScanAuth(payload.parts)

\* The message object after a call: the list payload["parts"] as the call left it.
AfterCall(msg, out) == [msg EXCEPT !.payload.parts = out.parts]

-----------------------------------------------------------------------------
(* classify *)

Lower(tok) == IF tok = "Invoice" THEN "invoice" ELSE tok

text_low(t) == [i \in 1..Len(t) |-> Lower(t[i])]

\* TextBlob(text).sentiment.polarity, in tenths: the lexicon scores "joy" 0.8
\* and the other words of the model 0.
Polarity(t) == IF "joy" \in Range(t) THEN 8 ELSE 0

Keywords == {"invoice", "payment due", "monthly statement"}

\* gmail_poll.py lines 108-115
classify(t) ==
    IF Range(text_low(t)) \cap Keywords # {} THEN "necessary"
    ELSE IF Polarity(t) > PolarityThreshold \/ "thank you" \in Range(text_low(t))
         THEN "important"
         ELSE "neither"

-----------------------------------------------------------------------------
(* act *)

NoRequest == [kind |-> "none", addLabelIds |-> {}]

NoLabel == "None"       \* LABEL_ID_REVIEW is not set

Truthy(rid) == rid # NoLabel /\ rid # ""

\* gmail_poll.py lines 118-132: the request act issues
act(category, rid) ==
    IF category = "necessary" /\ Truthy(rid)
    THEN [kind |-> "modify", addLabelIds |-> {"STARRED", rid}]
    ELSE IF category = "important"
         THEN [kind |-> "modify", addLabelIds |-> {"STARRED"}]
         ELSE [kind |-> "trash", addLabelIds |-> {}]

-----------------------------------------------------------------------------
(* The mailbox.  A sender is a string, modelled as its sequence of characters. *)

Blob(bytes) == [ok |-> TRUE, bytes |-> bytes]

Malformed == [ok |-> FALSE, bytes |-> <<>>]

Header(n, v) == [name |-> n, value |-> v]

MsgIds == 1..NumMsgs

\* What get_message returns for an identifier.
Message(id) ==
    CASE id = 1 ->      \* single part, text/plain
           [payload |-> Node(TextPlain, Blob(<<"Invoice", "meh">>), <<>>),
            headers |-> <<Header("From", <<"a", "b">>), Header("Subject", "s1")>>]
      [] id = 2 ->      \* multipart: an empty container, then an html part
           [payload |-> Node("multipart/alternative", EmptyBlob,
                             <<Node("multipart/related", EmptyBlob, <<>>),
                               Node(TextHtml, Blob(<<Tag, "joy", Entity>>), <<>>)>>),
            headers |-> <<Header("Subject", "s2"), Header("From", <<"b">>)>>]
      [] id = 3 ->      \* body data that is not valid base64
           [payload |-> Node(TextHtml, Malformed, <<>>),
            headers |-> <<Header("From", <<"a">>)>>]
      [] id = 4 ->      \* body data at the root and no mimeType key
           [payload |-> Node(NoMime, Blob(<<"thank you">>), <<>>),
            headers |-> <<>>]
      [] OTHER ->       \* nothing textual
           [payload |-> Node("multipart/mixed", EmptyBlob, <<>>),
            headers |-> <<Header("From", <<"b", "a">>)>>]

\* next((h['value'] for h in headers if h['name'] == name), default)
HeaderValue(msg, name, default) ==
    LET hits == SelectSeq(msg.headers, LAMBDA h : h.name = name)
    IN  IF hits = <<>> THEN default ELSE hits[1].value

NoRules == [truthy |-> FALSE, whitelist |-> {}, blacklist |-> {}]

RuleSets ==
    { NoRules,
      [truthy |-> TRUE, whitelist |-> {<<"a", "b">>}, blacklist |-> {<<"b">>}],
      [truthy |-> TRUE, whitelist |-> {},             blacklist |-> {<<"a">>}],
      [truthy |-> TRUE, whitelist |-> {<<"b", "a">>}, blacklist |-> {}] }

ReviewIds == {NoLabel, "", "Label_1"}

\* The command line's --auth, --once, --daemon and no mode at all; "api_daemon" is
\* run_daemon called with its conn argument given, which cli does not do.
Entries == {"auth", "once", "daemon", "none", "api_daemon"}

Unknown == <<"unknown">>

\* unread_message_ids: identifiers of messages not in the trash (the program never
\* clears UNREAD), in the order and multiplicity the service reports them, at most
\* MaxList of them.
Listings == SeqsUpTo(MsgIds \ trashed, MaxList)

-----------------------------------------------------------------------------
(* poll_once: one iteration of the for loop *)

Failures == {"fetch_failed", "extract_failed", "classify_failed", "mutate_failed"}

\* lines 153-160: the category after the rules, and the sender
sender_of(msg, rls) ==
    IF rls.truthy THEN HeaderValue(msg, "From", <<>>) ELSE Unknown

\* The two tests of lines 155-158 in the other order.
override_blacklist_first(cat, msg, rls) ==
    IF rls.truthy
    THEN LET sender == sender_of(msg, rls)
         IN  IF \E b \in rls.blacklist : IsSubstring(b, sender) THEN "neither"
             ELSE IF \E w \in rls.whitelist : IsSubstring(w, sender) THEN "important"
             ELSE cat
    ELSE cat

override(cat, msg, rls) ==
    IF rls.truthy
    THEN LET sender == sender_of(msg, rls)
         IN  IF \E w \in rls.whitelist : IsSubstring(w, sender) THEN "important"
             ELSE IF \E b \in rls.blacklist : IsSubstring(b, sender) THEN "neither"
             ELSE cat
    ELSE cat

\* digest.append and the INSERT placed where an error of act does not skip them.
CompletesDespiteActError(outcome) == outcome \in {"dry", "acted", "mutate_failed"}

\* The statements after act (digest.append, INSERT, commit) run when nothing raised.
Completes(outcome) == outcome \in {"dry", "acted"}

\* line 181, `except Exception`: every error of an iteration is caught there
\* (HttpError, binascii.Error, KeyError, a TextBlob error are all Exceptions).
Handled(outcome) == outcome \in Failures

\* lines 143-182.  inject: the external call that raises in this iteration.
Iteration(mid, seenSet, rls, rid, dry, inject) ==
    LET msg  == Message(mid)
        out  == plain_text_from_msg(msg)
        base == classify(out.text)
        cat  == override(base, msg, rls)
        skip(o) == [outcome |-> o, cat |-> "none", request |-> NoRequest]
    IN  IF inject = "fetch" THEN skip("fetch_failed")
        ELSE IF out.raised THEN skip("extract_failed")
        ELSE IF inject = "classify" THEN skip("classify_failed")
        ELSE IF mid \in seenSet THEN skip("skipped")
        ELSE IF dry THEN [outcome |-> "dry", cat |-> cat, request |-> NoRequest]
        ELSE [outcome |-> IF inject = "mutate" THEN "mutate_failed" ELSE "acted",
              cat     |-> cat,
              request |-> act(cat, rid)]

-----------------------------------------------------------------------------
(* The run *)

NoMsg == [payload |-> Node(NoMime, EmptyBlob, <<>>), headers |-> <<>>]

Init ==
    /\ pc = "start"
    /\ entry \in Entries
    /\ dry_run \in BOOLEAN
    /\ rules \in RuleSets
    /\ review_id \in ReviewIds
    /\ conn = "None"
    /\ now = 0
    /\ mailbox = [id \in MsgIds |-> Message(id)]
    /\ trashed = {}
    /\ seenDB = {}
    /\ listing = <<>>
    /\ idx = 1
    /\ seen = {}
    /\ digest = <<>>
    /\ log = <<>>
    /\ mutated = [id \in MsgIds |-> 0]
    /\ sweeps = 0
    /\ xmsg = NoMsg
    /\ xorig = NoMsg.payload
    /\ xres = <<>>

\* cli(), lines 237-270
Cli ==
    /\ pc = "start"
    /\ pc' = CASE entry = "once" -> "poll"
               [] entry \in {"daemon", "api_daemon"} -> "daemon"
               [] OTHER -> "exit"
    \* line 262 opens the cache; line 268 calls run_daemon without it
    /\ conn' = IF entry \in {"once", "api_daemon"} THEN "db" ELSE "None"
    /\ UNCHANGED <<entry, dry_run, rules, review_id, now, mailbox, trashed, seenDB,
                   listing, idx, seen, digest, log, mutated, sweeps>>
    /\ UNCHANGED extractVars

\* run_daemon, lines 188-189 and 192
DaemonLoop ==
    /\ pc = "daemon"
    /\ pc' = IF now < PollInterval THEN "poll" ELSE "exit"
    /\ UNCHANGED <<entry, dry_run, rules, review_id, conn, now, mailbox, trashed, seenDB,
                   listing, idx, seen, digest, log, mutated, sweeps>>
    /\ UNCHANGED extractVars

\* poll_once, lines 139-142
PollStart ==
    /\ pc = "poll"
    /\ IF conn = "None"
       THEN \* conn.execute on None: AttributeError outside the try
            /\ pc' = "crashed"
            /\ UNCHANGED <<listing, idx, seen, digest, log>>
       ELSE /\ pc' = "sweep"
            /\ digest' = <<>>
            /\ seen' = seenDB
            /\ listing' \in Listings
            /\ idx' = 1
            /\ log' = <<>>
    /\ UNCHANGED <<entry, dry_run, rules, review_id, conn, now, mailbox, trashed, seenDB,
                   mutated, sweeps>>
    /\ UNCHANGED extractVars

\* poll_once, lines 142-182: one iteration
Step(inject) ==
    /\ pc = "sweep"
    /\ idx <= Len(listing)
    /\ LET mid == listing[idx]
           it  == Iteration(mid, seen, rules, review_id, dry_run, inject)
           msg == mailbox[mid]
       IN  /\ log' = Append(log, [id |-> mid, outcome |-> it.outcome, cat |-> it.cat,
                                  request |-> it.request])
           /\ mutated' = IF it.outcome = "acted"
                         THEN [mutated EXCEPT ![mid] = @ + 1] ELSE mutated
           /\ trashed' = IF it.outcome = "acted" /\ it.request.kind = "trash"
                         THEN trashed \cup {mid} ELSE trashed
           /\ digest' = IF Completes(it.outcome)
                        THEN Append(digest,
                                    [id |-> mid, category |-> it.cat,
                                     subject |-> HeaderValue(msg, "Subject", "No Subject"),
                                     sender |-> sender_of(msg, rules)])
                        ELSE digest
           /\ seenDB' = IF Completes(it.outcome) THEN seenDB \cup {mid} ELSE seenDB
           /\ pc' = IF it.outcome \in Failures /\ ~Handled(it.outcome)
                    THEN "crashed" ELSE "sweep"
    /\ idx' = idx + 1
    /\ UNCHANGED <<entry, dry_run, rules, review_id, conn, now, mailbox, listing,
                   seen, sweeps>>
    /\ UNCHANGED extractVars

\* poll_once returns (line 184); cli exports the digest (266) or run_daemon sleeps (191)
PollReturn ==
    /\ pc = "sweep"
    /\ idx > Len(listing)
    /\ sweeps' = sweeps + 1
    /\ pc' = IF entry = "once" THEN "exit" ELSE "sleep"
    /\ listing' = <<>>
    /\ idx' = 1
    /\ seen' = {}
    /\ digest' = <<>>
    /\ log' = <<>>
    /\ UNCHANGED <<entry, dry_run, rules, review_id, conn, now, mailbox, trashed, seenDB,
                   mutated>>
    /\ UNCHANGED extractVars

\* run_daemon, line 191
Sleep ==
    /\ pc = "sleep"
    /\ now' = now + SleepSecs
    /\ pc' = "daemon"
    /\ UNCHANGED <<entry, dry_run, rules, review_id, conn, mailbox, trashed, seenDB,
                   listing, idx, seen, digest, log, mutated, sweeps>>
    /\ UNCHANGED extractVars

-----------------------------------------------------------------------------
(* The extractor on its own: one message object, called up to MaxCalls times *)

Leaves ==
    { Node(TextPlain, Blob(<<"Invoice">>), <<>>),
      Node(TextHtml,  Blob(<<Tag, "joy", Entity>>), <<>>),
      Node(OtherMime, Blob(<<"meh", BadByte>>), <<>>),
      Node(NoMime,    Blob(<<"thank you">>), <<>>),
      Node(TextPlain, Malformed, <<>>) }

Containers(n) == {Node("multipart/mixed", EmptyBlob, ps) : ps \in SeqsUpTo(Leaves, n)}

RootData == {EmptyBlob, Blob(<<"meh", Tag>>), Malformed}

Payloads(n) ==
    { Node(mime, data, ps) :
        mime \in {TextPlain, TextHtml, OtherMime, NoMime},
        data \in RootData,
        ps \in SeqsUpTo(Leaves \cup Containers(n), n) }

InitExtract ==
    /\ pc = "extract"
    /\ entry = "none"
    /\ dry_run = FALSE
    /\ rules = NoRules
    /\ review_id = NoLabel
    /\ conn = "None"
    /\ now = 0
    /\ mailbox = [id \in MsgIds |-> Message(id)]
    /\ trashed = {}
    /\ seenDB = {}
    /\ listing = <<>>
    /\ idx = 1
    /\ seen = {}
    /\ digest = <<>>
    /\ log = <<>>
    /\ mutated = [id \in MsgIds |-> 0]
    /\ sweeps = 0
    /\ \E p \in Payloads(MaxParts) :
          /\ xmsg = [payload |-> p, headers |-> <<>>]
          /\ xorig = p
    /\ xres = <<>>

Call(fn, out) ==
    /\ Len(xres) < MaxCalls
    /\ xres' = Append(xres, [fn |-> fn, raised |-> out.raised, text |-> out.text])
    /\ xmsg' = AfterCall(xmsg, out)
    /\ UNCHANGED xorig
    /\ UNCHANGED pollVars

\* gmail_poll.plain_text_from_msg(xmsg)
ExtractPoll == Call("poll", plain_text_from_msg(xmsg))

\* authenticate.plain_text_from_msg(xmsg)
ExtractAuth == Call("auth", plain_text_from_msg_auth(xmsg))

NextExtract ==
    \/ ExtractPoll
    \/ ExtractAuth

SpecExtract == InitExtract /\ [][NextExtract]_vars

-----------------------------------------------------------------------------
Next ==
    \/ Cli
    \/ DaemonLoop
    \/ PollStart
    \/ \E inject \in {"none", "fetch", "classify", "mutate"} : Step(inject)
    \/ PollReturn
    \/ Sleep

Spec == Init /\ [][Next]_vars

-----------------------------------------------------------------------------
(* Properties *)

Categories == {"necessary", "important", "neither"}

Issued(e) == e.outcome \in {"acted", "mutate_failed"}

\* C1: for a message whose final category is `necessary`, act issues a
\* label-modify request, never a trash request; the labels added are STARRED
\* and the review label when one is configured, and STARRED alone when
\* review_id is None or empty.
C1_NecessaryIsStarred ==
    \A k \in 1..Len(log) :
        (Issued(log[k]) /\ log[k].cat = "necessary") =>
            /\ log[k].request.kind = "modify"
            /\ log[k].request.addLabelIds =
                   IF review_id \in {NoLabel, ""} THEN {"STARRED"}
                   ELSE {"STARRED", review_id}

\* C2: in every reachable state, dry-run or not, an identifier is in the
\* persisted seen set only if a mutation call for it has completed successfully.
C2_SeenOnlyAfterMutation ==
    \A id \in seenDB : mutated[id] >= 1

\* The identifiers of the iterations of the current sweep that ran to their end.
RECURSIVE CompletedIds(_)
CompletedIds(l) ==
    IF l = <<>> THEN <<>>
    ELSE IF Head(l).outcome \in {"dry", "acted"}
         THEN <<Head(l).id>> \o CompletedIds(Tail(l))
         ELSE CompletedIds(Tail(l))

\* C3: a failure while processing one message (fetch, extraction, classification
\* or mutation error) does not abort the batch: the loop stays in the sweep and
\* goes through the listing position by position, and the digest and the seen
\* store hold exactly the iterations that ran to their end, so a failed one is
\* in neither.
C3_FailureIsolated ==
    /\ (log # <<>> => pc = "sweep")
    /\ pc = "sweep" =>
          /\ Len(log) = idx - 1
          /\ idx <= Len(listing) + 1
          /\ \A k \in 1..Len(log) : log[k].id = listing[k]
          /\ [k \in 1..Len(digest) |-> digest[k].id] = CompletedIds(log)
          /\ seenDB = seen \cup Range(CompletedIds(log))

\* C3 witness: an iteration failed and a later one of the same sweep acted.
C3_Witness ==
    /\ pc = "sweep"
    /\ \E j \in 1..Len(log) : \E k \in 1..Len(log) :
          /\ j < k
          /\ log[j].outcome \in Failures
          /\ log[j].id # log[k].id
          /\ log[k].outcome = "acted"
          /\ log[j].id \notin seenDB

\* C6: the final category of a processed message is `important` when its From
\* header contains a whitelist entry, else `neither` when it contains a blacklist
\* entry, else the baseline category of its text; a whitelisted sender's message
\* is never trashed.
C6_RulesOverride ==
    \A k \in 1..Len(log) :
        LET e     == log[k]
            msg   == mailbox[e.id]
            from  == HeaderValue(msg, "From", <<>>)
            white == \E w \in rules.whitelist : IsSubstring(w, from)
            black == \E b \in rules.blacklist : IsSubstring(b, from)
            base  == classify(plain_text_from_msg(msg).text)
        IN  (e.outcome \in {"dry", "acted", "mutate_failed"}) =>
               /\ e.cat = IF white THEN "important"
                          ELSE IF black THEN "neither" ELSE base
               /\ white => e.request.kind # "trash"

\* C6 witness: a sender matching both lists, with a baseline other than
\* `important`, was starred.
C6_Witness ==
    \E k \in 1..Len(log) :
        LET from == HeaderValue(mailbox[log[k].id], "From", <<>>)
        IN  /\ rules.truthy
            /\ \E w \in rules.whitelist : IsSubstring(w, from)
            /\ \E b \in rules.blacklist : IsSubstring(b, from)
            /\ classify(plain_text_from_msg(mailbox[log[k].id]).text) = "necessary"
            /\ log[k].outcome = "acted"
            /\ log[k].cat = "important"
            /\ log[k].request.kind = "modify"

\* C7: over the non-dry-run sweeps sharing one seen store, at most one mutation
\* completes successfully for any identifier, also when the identifier is listed
\* again in a later sweep or more than once in one listing.
C7_AtMostOneMutation ==
    \A id \in MsgIds : mutated[id] <= 1

\* C8: with the dry-run flag set no mutation is issued in any run mode, while a
\* run in single-pass or daemon mode still sweeps: each unread unseen message is
\* classified and its category logged.
C8_DryRun ==
    dry_run =>
        /\ \A id \in MsgIds : mutated[id] = 0
        /\ \A k \in 1..Len(log) :
              /\ log[k].request = NoRequest
              /\ (log[k].outcome \notin Failures /\ log[k].id \notin seen) =>
                     (log[k].outcome = "dry" /\ log[k].cat \in Categories)
        /\ (entry \in {"once", "daemon"} /\ pc \in {"exit", "crashed"}) => sweeps >= 1

\* C10: daemon mode started from the command line runs full sweeps until the
\* interval has elapsed: the run does not end before its first sweep is complete.
C10_DaemonSweeps ==
    entry = "daemon" =>
        /\ pc # "crashed"
        /\ pc = "exit" => (sweeps >= 1 /\ now >= PollInterval)

-----------------------------------------------------------------------------
(* Properties of the extractor, under SpecExtract *)

\* The root's body data cannot be decoded, or is there without a mimeType.
BrokenRoot(p) == p.data = Malformed \/ (HasData(p) /\ p.mimeType = NoMime)

\* C4: for a payload whose body data is malformed base64 or whose mimeType is
\* missing, plain_text_from_msg returns "" and does not raise.
C4_ExtractionDegrades ==
    (Len(xres) >= 1 /\ xres[1].fn = "poll" /\ BrokenRoot(xorig)) =>
        (~xres[1].raised /\ xres[1].text = NoText)

\* C5: plain_text_from_msg leaves its input unchanged, the `parts` sequences
\* included, so a second call on the same message object returns what the
\* first returned.
C5_NoSideEffect ==
    (\A k \in 1..Len(xres) : xres[k].fn = "poll") =>
        /\ xmsg.payload = xorig
        /\ \A j \in 1..Len(xres) : xres[j] = xres[1]

\* C9: a root that carries body data under a MIME type other than text/plain
\* and text/html is not returned: the result is that of the FIFO scan of `parts`,
\* the text of the first data-bearing part or "".
C9_RootFallsThrough ==
    (/\ Len(xres) >= 1
     /\ xres[1].fn = "poll"
     /\ xorig.mimeType = OtherMime
     /\ HasData(xorig)
     /\ xorig.data.ok) =>
        (/\ xres[1].raised = ScanPoll(xorig.parts).raised
         /\ xres[1].text = ScanPoll(xorig.parts).text)

====
